---------------------------- MODULE Spec2Model ----------------------------
(***************************************************************************)
(* Zen Coding actions (zen_actions.js, v0.6): the middleware between an     *)
(* editor and the Zen Coding engine.  A document is a sequence of one-      *)
(* character strings addressed by 0-based offsets, as in the JavaScript.    *)
(***************************************************************************)
EXTENDS Integers, Sequences, FiniteSets, TLC

VARIABLES
    content,     \* editor.getContent(): the document
    selStart,    \* editor.getSelectionRange().start
    selEnd,      \* editor.getSelectionRange().end
    caret,       \* editor.getCaretPos()
    last_match,  \* HTMLPairMatcher.last_match: [opening_tag, closing_tag]
    text,        \* the text argument handed to unindent(editor, text)
    op,          \* the action that ran last
    ret,         \* what it returned
    issued,      \* the editor mutations it issued, in order
    obs,         \* what it computed on the way (per action)
    orig,        \* the editor state at start: [content, start, end]
    steps        \* number of document-growing actions so far

vars == <<content, selStart, selEnd, caret, last_match, text, op, ret,
          issued, obs, orig, steps>>

----------------------------------------------------------------------------
(* Bounds of the model *)

MaxEditLen == 4

MaxPadDoc == 2

MaxText == 5

MaxMergeLen == 5

MaxTokens == 3

MaxTagTokens == 4

MaxGrow == 2

\* the tokens of a document the full editor starts on
MaxDocTokens == 1

----------------------------------------------------------------------------
(* JavaScript string primitives *)

NOT_FOUND == 0 - 1

Null == "null"

Min(a, b) == IF a < b THEN a ELSE b

Max(a, b) == IF a > b THEN a ELSE b

Clamp(n, len) == Max(0, Min(n, len))

\* All strings over alphabet A of length at most n
Strs(A, n) == UNION { [1..k -> A] : k \in 0..n }

\* String.prototype.charAt: '' outside the string
charAt(s, ix) == IF ix >= 0 /\ ix < Len(s) THEN s[ix + 1] ELSE ""

\* String.prototype.substring: arguments clamped to [0, length] and swapped
\* when start > end
substring(s, a, b) ==
    LET ca == Clamp(a, Len(s))
        cb == Clamp(b, Len(s))
    IN  SubSeq(s, Min(ca, cb) + 1, Max(ca, cb))

\* s.substring(a): to the end of the string
substringFrom(s, a) == substring(s, a, Len(s))

\* the regular expression class \s, restricted to the characters modelled
WS == {" ", "\t", "\n", "\r"}

NL == {"\n", "\r"}

isSpace(c) == c \in WS

AllSpace(s) == \A i \in 1..Len(s) : s[i] \in WS

\* /^\s+$/.test(s)
re_empty_line(s) == Len(s) > 0 /\ AllSpace(s)

\* number of leading characters of s in class \s: the match of /^\s*/
RECURSIVE LeadingWS(_)
LeadingWS(s) ==
    IF s # <<>> /\ Head(s) \in WS THEN 1 + LeadingWS(Tail(s)) ELSE 0

\* content.substr(start, str.length) == str
hasMatch(s, str, start) ==
    /\ start >= 0
    /\ start + Len(str) <= Len(s)
    /\ SubSeq(s, start + 1, start + Len(str)) = str

----------------------------------------------------------------------------
(* The editor: zen_editor interface *)

\* editor.getCurrentLineRange(): the bounds of the line holding the caret
LineStart(s, pos) ==
    LET p == Clamp(pos, Len(s))
        S == { i \in 0..p : i = 0 \/ s[i] \in NL }
    IN  CHOOSE i \in S : \A j \in S : j <= i

LineEnd(s, pos) ==
    LET p == Clamp(pos, Len(s))
        S == { i \in p..Len(s) : i = Len(s) \/ s[i + 1] \in NL }
    IN  CHOOSE i \in S : \A j \in S : i <= j

\* editor.getCurrentLine()
getCurrentLine(s, pos) == substring(s, LineStart(s, pos), LineEnd(s, pos))

\* editor.replaceContent(value, start, end): the document after it
replaceContent(s, value, start, end) ==
    substring(s, 0, start) \o value \o substringFrom(s, end)

\* editor.setCaretPos: the editor keeps the caret inside the document
setCaretPos(s, pos) == Clamp(pos, Len(s))

\* the editor's fields as one value, to chain the calls of an action
Editor == [content |-> content, start |-> selStart, end |-> selEnd,
           caret |-> caret]

\* the editor after replaceContent: offsets stay inside the new document
edReplace(e, value, start, end) ==
    LET c == replaceContent(e.content, value, start, end)
    IN  [content |-> c, start |-> Clamp(e.start, Len(c)),
         end |-> Clamp(e.end, Len(c)), caret |-> Clamp(e.caret, Len(c))]

edSetCaret(e, pos) == [e EXCEPT !.caret = setCaretPos(e.content, pos)]

\* the editor after createSelection(start, end)
edSelect(e, start, end) ==
    [e EXCEPT !.start = Clamp(start, Len(e.content)),
              !.end = Clamp(end, Len(e.content))]

\* the editor's fields in the next state
SetEditor(e) ==
    /\ content' = e.content
    /\ selStart' = e.start
    /\ selEnd' = e.end
    /\ caret' = e.caret

----------------------------------------------------------------------------
(* The tag matcher: HTMLPairMatcher (html_matcher.js).  Tags are            *)
(* <name attr...>, <name/>, </name> and comments <!-- ... -->; attribute    *)
(* values are not modelled.                                                 *)

\* the characters modelled of the class [\w:\-] of tag and attribute names
NameChars == {"a", "b", "x", "-"}

\* a tag occurrence (TagInfo); type "none" stands for null
NoTag == [type |-> "none", name |-> <<>>, start |-> NOT_FOUND,
          end |-> NOT_FOUND, unary |-> FALSE]

isTag(t) == t.type # "none"

NoMatch == [opening_tag |-> NoTag, closing_tag |-> NoTag]

RECURSIVE nameEnd(_, _)
nameEnd(s, j) == IF charAt(s, j) \in NameChars THEN nameEnd(s, j + 1) ELSE j

RECURSIVE skipWS(_, _)
skipWS(s, j) == IF charAt(s, j) \in WS THEN skipWS(s, j + 1) ELSE j

\* s.indexOf(str, from), -1 when absent
RECURSIVE indexOf(_, _, _)
indexOf(s, str, from) ==
    IF from + Len(str) > Len(s) THEN NOT_FOUND
    ELSE IF hasMatch(s, str, from) THEN from
    ELSE indexOf(s, str, from + 1)

\* the attributes after a tag name: (\s+ name)*
RECURSIVE attrsEnd(_, _)
attrsEnd(s, n) ==
    LET w == skipWS(s, n)
    IN  IF w > n /\ nameEnd(s, w) > w THEN attrsEnd(s, nameEnd(s, w)) ELSE n

\* the closing tag </name ...> starting at offset j, or NoTag
end_tag(s, j) ==
    LET n == nameEnd(s, j + 2)
        g == indexOf(s, <<">">>, n)
    IN  IF charAt(s, j) = "<" /\ charAt(s, j + 1) = "/" /\ n > j + 2
           /\ g # NOT_FOUND
        THEN [type |-> "tag", name |-> substring(s, j + 2, n), start |-> j,
              end |-> g + 1, unary |-> FALSE]
        ELSE NoTag

\* the opening or unary tag <name attr... /?> starting at offset j, or NoTag
start_tag(s, j) ==
    LET n == nameEnd(s, j + 1)
        w == skipWS(s, attrsEnd(s, n))
        u == charAt(s, w) = "/"
        g == IF u THEN w + 1 ELSE w
    IN  IF charAt(s, j) = "<" /\ n > j + 1 /\ charAt(s, g) = ">"
        THEN [type |-> "tag", name |-> substring(s, j + 1, n), start |-> j,
              end |-> g + 1, unary |-> u]
        ELSE NoTag

CommentOpen == <<"<", "!", "-", "-">>

CommentClose == <<"-", "-", ">">>

Comment(start, end) ==
    [type |-> "comment", name |-> <<>>, start |-> start, end |-> end,
     unary |-> FALSE]

\* searchCommentStart(from): the nearest "<!--" left of from, or -1
RECURSIVE searchCommentStart(_, _)
searchCommentStart(s, from) ==
    IF from <= 0 THEN NOT_FOUND
    ELSE IF hasMatch(s, CommentOpen, from - 1) THEN from - 1
    ELSE searchCommentStart(s, from - 1)

Pair(o, c) == [opening_tag |-> o, closing_tag |-> c]

\* the one element of a singleton set; { e : x \in {v} } names the value v
\* as x in e
Only(S) == CHOOSE x \in S : TRUE

\* the backward scan for the nearest unclosed opening tag, at offset j;
\* stack holds the names of the closing tags passed, closing a closing tag
\* that holds start_ix.  found tells how the scan ended: "return" (the pair
\* is the result), "open" (opening tag found) or "none".
RECURSIVE backward(_, _, _, _, _)
backwardTag(s, j, start_ix, stack, closing, et, st) ==
    IF isTag(et)
    THEN IF et.start < start_ix /\ et.end > start_ix
         THEN backward(s, j - 1, start_ix, stack, et)
         ELSE backward(s, j - 1, start_ix, Append(stack, et.name), closing)
    ELSE IF isTag(st)
    THEN IF st.unary
         THEN IF st.start < start_ix /\ st.end > start_ix
              THEN [found |-> "return", pair |-> Pair(st, NoTag)]
              ELSE backward(s, j - 1, start_ix, stack, closing)
         ELSE IF stack # <<>> /\ stack[Len(stack)] = st.name
         THEN backward(s, j - 1, start_ix, SubSeq(stack, 1, Len(stack) - 1),
                       closing)
         ELSE [found |-> "open", pair |-> Pair(st, closing)]
    ELSE Only({ IF hasMatch(s, CommentOpen, j)
                   /\ j < start_ix /\ end_ix >= start_ix
                THEN [found |-> "return",
                      pair |-> Pair(Comment(j, end_ix), NoTag)]
                ELSE backward(s, j - 1, start_ix, stack, closing) :
                end_ix \in { Only({ (IF ce = NOT_FOUND THEN NOT_FOUND
                                     ELSE ce - j) + j + 3 :
                                    ce \in {indexOf(s, CommentClose, j)} }) } })

backward(s0, j0, start_ix, stack0, closing0) ==
    Only({ IF j < 0 THEN [found |-> "none", pair |-> Pair(NoTag, closing)]
           ELSE IF charAt(s, j) = "<"
           THEN Only({ backwardTag(s, j, start_ix, stack, closing, et, st) :
                       et \in {end_tag(s, j)}, st \in {start_tag(s, j)} })
           ELSE IF charAt(s, j) = "-" /\ hasMatch(s, CommentClose, j)
           THEN Only({ IF c <= 0
                       THEN [found |-> "none", pair |-> Pair(NoTag, closing)]
                       ELSE backward(s, c - 1, start_ix, stack, closing) :
                       c \in {searchCommentStart(s, j)} })
           ELSE backward(s, j - 1, start_ix, stack, closing) :
           s \in {s0}, j \in {j0}, stack \in {stack0}, closing \in {closing0} })

\* the forward scan for the closing tag of opening, at offset j
RECURSIVE forward(_, _, _, _)
forwardTag(s, j, stack, opening, st, et) ==
    IF isTag(st)
    THEN forward(s, j + 1, IF st.unary THEN stack ELSE Append(stack, st.name),
                 opening)
    ELSE IF isTag(et)
    THEN IF stack # <<>> /\ stack[Len(stack)] = et.name
         THEN forward(s, j + 1, SubSeq(stack, 1, Len(stack) - 1), opening)
         ELSE Pair(opening, et)
    ELSE IF hasMatch(s, CommentOpen, j)
    THEN Only({ forward(s, (IF ce = NOT_FOUND THEN j - 1 ELSE ce) + 3, stack,
                        opening) : ce \in {indexOf(s, CommentClose, j)} })
    ELSE forward(s, j + 1, stack, opening)

forward(s0, j0, stack0, opening0) ==
    Only({ IF j >= Len(s) THEN Pair(opening, NoTag)
           ELSE IF charAt(s, j) = "<"
           THEN Only({ forwardTag(s, j, stack, opening, st, et) :
                       st \in {start_tag(s, j)}, et \in {end_tag(s, j)} })
           ELSE IF charAt(s, j) = "-" /\ hasMatch(s, CommentClose, j)
                   /\ opening.end < j
           THEN Pair(Comment(searchCommentStart(s, j), j + 3), NoTag)
           ELSE forward(s, j + 1, stack, opening) :
           s \in {s0}, j \in {j0}, stack \in {stack0}, opening \in {opening0} })

\* findPair(html, start_ix): the innermost pair around start_ix, as
\* [opening_tag, closing_tag]; both NoTag when there is none
findPair(s, start_ix) ==
    Only({ CASE b.found = "return" -> b.pair
             [] b.found = "none" -> NoMatch
             [] OTHER ->
                  IF isTag(b.pair.closing_tag) THEN b.pair
                  ELSE forward(s, start_ix, <<>>, b.pair.opening_tag) :
           b \in {backward(s, start_ix - 1, start_ix, <<>>, NoTag)} })

\* the range of a pair: the whole element when ix is inside one of its
\* tags (or it has no closing tag), else its content; <<-1, -1>> for none
makeRange(pair, ix) ==
    Only({ IF ~ isTag(o) THEN <<NOT_FOUND, NOT_FOUND>>
           ELSE IF ~ isTag(c) THEN <<o.start, o.end>>
           ELSE IF \/ (o.start < ix /\ o.end > ix)
                   \/ (c.start <= ix /\ c.end > ix)
           THEN <<o.start, c.end>>
           ELSE <<o.end, c.start>> :
           o \in {pair.opening_tag}, c \in {pair.closing_tag} })

\* HTMLPairMatcher.find(html, start_ix): the range, no side effect
find(s, start_ix) == makeRange(findPair(s, start_ix), start_ix)

\* HTMLPairMatcher.getTags(html, start_ix)
getTags(s, start_ix) == findPair(s, start_ix)

\* HTMLPairMatcher(html, start_ix): [range, last_match]; the range is
\* <<-1, -1>> for null; only a successful match overwrites last_match
HTMLPairMatcher(s, start_ix, lm) ==
    Only({ Only({ [range |-> r,
                   last_match |-> IF r[1] # NOT_FOUND THEN pair ELSE lm] :
                  r \in {makeRange(pair, start_ix)} }) :
           pair \in {findPair(s, start_ix)} })

----------------------------------------------------------------------------
(* Edit-point scanner *)

\* getLine(ix) inside findNewEditPoint
RECURSIVE getLineStart(_, _)
getLineStart(s, start) ==
    IF start >= 0 /\ charAt(s, start) \notin NL
    THEN getLineStart(s, start - 1)
    ELSE start

getLine(s, ix) == substring(s, getLineStart(s, ix), ix)

\* the switch on cur_char: the landing point at cur_point, or -1
landing(s, cur_point) ==
    LET cur_char  == charAt(s, cur_point)
        next_char == charAt(s, cur_point + 1)
        prev_char == charAt(s, cur_point - 1)
    IN  CASE cur_char \in {"\"", "'"} ->
               IF next_char = cur_char /\ prev_char = "="
               THEN cur_point + 1 ELSE NOT_FOUND
          [] cur_char = ">" ->
               IF next_char = "<" THEN cur_point + 1 ELSE NOT_FOUND
          [] cur_char \in NL ->
               IF re_empty_line(getLine(s, cur_point - 1))
               THEN cur_point ELSE NOT_FOUND
          [] OTHER -> NOT_FOUND

\* the while loop of findNewEditPoint, entered with cur_point
RECURSIVE scan(_, _, _)
scan(s, cur_point, inc) ==
    IF cur_point < Len(s) /\ cur_point > 0
    THEN LET next_point == landing(s, cur_point + inc)
         IN  IF next_point # NOT_FOUND THEN next_point
             ELSE scan(s, cur_point + inc, inc)
    ELSE NOT_FOUND

\* a variant that starts the scan one character early
findNewEditPoint_early(s, pos, inc, offset) == scan(s, pos + offset - 1, inc)

findNewEditPoint(s, pos, inc, offset) == scan(s, pos + offset, inc)

\* a variant that sets the caret whatever the search returned
caretAfter_unchecked(s, pos, new_point) == setCaretPos(s, new_point)

\* if (new_point != -1) editor.setCaretPos(new_point): the caret afterwards
caretAfter(s, pos, new_point) ==
    IF new_point # NOT_FOUND THEN setCaretPos(s, new_point) ELSE pos

EditAlphabet == {"\"", "'", "=", ">", "<", "\n", " "}

nextEditPoint ==
    \E new_point \in {findNewEditPoint(content, caret, 1, 0)} :
        /\ op' = "nextEditPoint"
        /\ obs' = [from |-> caret, finds |-> <<new_point>>]
        /\ ret' = new_point
        /\ caret' = caretAfter(content, caret, new_point)
        /\ issued' = IF new_point # NOT_FOUND
                     THEN << <<"setCaretPos", new_point>> >> ELSE <<>>
        /\ UNCHANGED <<content, selStart, selEnd, last_match, text, orig, steps>>

prevEditPoint ==
    \E first \in {findNewEditPoint(content, caret, 0 - 1, 0)} :
    \E retry \in {first = caret} :
    \E new_point \in {IF retry
                      THEN findNewEditPoint(content, caret, 0 - 1, 0 - 2)
                      ELSE first} :
        /\ op' = "prevEditPoint"
        /\ obs' = [from |-> caret,
                   finds |-> IF retry THEN <<first, new_point>> ELSE <<first>>]
        /\ ret' = new_point
        /\ caret' = caretAfter(content, caret, new_point)
        /\ issued' = IF new_point # NOT_FOUND
                     THEN << <<"setCaretPos", new_point>> >> ELSE <<>>
        /\ UNCHANGED <<content, selStart, selEnd, last_match, text, orig, steps>>

InitEdit ==
    /\ content \in Strs(EditAlphabet, MaxEditLen)
    /\ caret \in 0..Len(content)
    /\ selStart = caret
    /\ selEnd = caret
    /\ last_match = NoMatch
    /\ text = <<>>
    /\ op = "init"
    /\ ret = Null
    /\ issued = <<>>
    /\ obs = Null
    /\ orig = [content |-> content, start |-> selStart, end |-> selEnd]
    /\ steps = 0

NextEdit == nextEditPoint \/ prevEditPoint

SpecEdit == InitEdit /\ [][NextEdit]_vars

----------------------------------------------------------------------------
(* Text-block transforms: unindent *)

\* zen_coding.getNewline(): the configured newline string
getNewline == <<"\n">>

\* zen_coding.splitByLines(text): the lines of text, split at "\r\n", "\n"
\* or "\r"; cur is the line being collected
RECURSIVE splitFrom(_, _)
splitFrom(s, cur) ==
    IF s = <<>> THEN <<cur>>
    ELSE IF Head(s) = "\r" /\ Len(s) > 1 /\ s[2] = "\n"
         THEN <<cur>> \o splitFrom(Tail(Tail(s)), <<>>)
    ELSE IF Head(s) \in NL
         THEN <<cur>> \o splitFrom(Tail(s), <<>>)
    ELSE splitFrom(Tail(s), Append(cur, Head(s)))

splitByLines(s) == splitFrom(s, <<>>)

\* Array.prototype.join
RECURSIVE join(_, _)
join(lines, sep) ==
    IF lines = <<>> THEN <<>>
    ELSE IF Len(lines) = 1 THEN lines[1]
    ELSE lines[1] \o sep \o join(Tail(lines), sep)

\* (editor.getCurrentLine().match(/^(\s+)/) || [''])[0]
getCurrentLinePadding(s, pos) ==
    LET line == getCurrentLine(s, pos)
    IN  SubSeq(line, 1, LeadingWS(line))

\* a variant that strips all the leading whitespace of a padded line
unindentLine_all(pad, line) ==
    IF hasMatch(line, pad, 0) THEN substringFrom(line, LeadingWS(line)) ELSE line

\* the body of unindent's loop: lines[i].search(pad) == 0 holds exactly when
\* the line starts with pad (pad is literal whitespace); then substr(pad.length)
unindentLine(pad, line) ==
    IF hasMatch(line, pad, 0) THEN substringFrom(line, Len(pad)) ELSE line

unindent(s, pos, txt) ==
    LET pad   == getCurrentLinePadding(s, pos)
        lines == splitByLines(txt)
    IN  join([i \in 1..Len(lines) |-> unindentLine(pad, lines[i])], getNewline)

\* unindent(editor, text) applied to the text buffer
Unindent ==
    /\ op' = "unindent"
    /\ obs' = [pad |-> getCurrentLinePadding(content, caret)]
    /\ ret' = unindent(content, caret, text)
    /\ issued' = <<>>
    /\ UNCHANGED <<content, selStart, selEnd, caret, last_match, text, orig, steps>>

PadAlphabet == {" ", "x", "\n"}

InitUnindent ==
    /\ content \in Strs(PadAlphabet, MaxPadDoc)
    /\ caret \in 0..Len(content)
    /\ selStart = caret
    /\ selEnd = caret
    /\ last_match = NoMatch
    /\ text \in Strs(PadAlphabet, MaxText)
    /\ op = "init"
    /\ ret = Null
    /\ issued = <<>>
    /\ obs = Null
    /\ orig = [content |-> content, start |-> selStart, end |-> selEnd]
    /\ steps = 0

NextUnindent == Unindent

SpecUnindent == InitUnindent /\ [][NextUnindent]_vars

----------------------------------------------------------------------------
(* Text-block transforms: mergeLines *)

\* line.replace(/^\s+/, '')
stripLeadingWS(line) == substringFrom(line, LeadingWS(line))

\* first offset >= j of two adjacent whitespace characters, or -1
RECURSIVE runStart(_, _)
runStart(s, j) ==
    IF j + 1 >= Len(s) THEN NOT_FOUND
    ELSE IF charAt(s, j) \in WS /\ charAt(s, j + 1) \in WS THEN j
    ELSE runStart(s, j + 1)

\* s.replace(/\s{2,}/, ' '): the regular expression has no g flag, so only
\* the first run of two or more whitespace characters is replaced
collapseFirstRun(s) ==
    LET j == runStart(s, 0)
    IN  IF j = NOT_FOUND THEN s
        ELSE substring(s, 0, j) \o <<" ">> \o substringFrom(s, skipWS(s, j))

\* the text mergeLines puts in place of the span
mergedText(txt) ==
    LET lines == splitByLines(txt)
    IN  collapseFirstRun(
           join([i \in 1..Len(lines) |->
                   IF i = 1 THEN lines[i] ELSE stripLeadingWS(lines[i])],
                <<>>))

\* mergeLines(editor); the values it computes are bound by \E over a
\* one-element set
mergeLines ==
    \E m \in {HTMLPairMatcher(content, caret, last_match)} :
    \E lookup \in {selStart = selEnd} :
    \E start \in {IF lookup /\ m.range[1] # NOT_FOUND THEN m.range[1]
                  ELSE selStart} :
    \E end \in {IF lookup /\ m.range[1] # NOT_FOUND THEN m.range[2]
                ELSE selEnd} :
    \E txt \in {mergedText(substring(content, start, end))} :
        /\ op' = "mergeLines"
        /\ ret' = Null
        /\ last_match' = IF lookup THEN m.last_match ELSE last_match
        /\ IF start # end
           THEN /\ SetEditor(edSelect(edReplace(Editor, txt, start, end),
                                      start, start + Len(txt)))
                /\ issued' = << <<"replaceContent", txt, start, end>>,
                                <<"createSelection", start, start + Len(txt)>> >>
                /\ obs' = [acted |-> TRUE, start |-> start, end |-> end,
                           text |-> txt]
           ELSE /\ UNCHANGED <<content, selStart, selEnd, caret>>
                /\ issued' = <<>>
                /\ obs' = [acted |-> FALSE, start |-> start, end |-> end,
                           text |-> <<>>]
        /\ UNCHANGED <<text, orig, steps>>

InitMerge ==
    /\ content \in Strs(PadAlphabet, MaxMergeLen)
    /\ selStart \in 0..Len(content)
    /\ selEnd \in selStart..Len(content)
    /\ caret \in {selStart, selEnd}
    /\ last_match = NoMatch
    /\ text = <<>>
    /\ op = "init"
    /\ ret = Null
    /\ issued = <<>>
    /\ obs = Null
    /\ orig = [content |-> content, start |-> selStart, end |-> selEnd]
    /\ steps = 0

NextMerge == mergeLines

SpecMerge == InitMerge /\ [][NextMerge]_vars

----------------------------------------------------------------------------
(* Comment toggle *)

\* the length of the match of /^<!--\s*/ in str, 0 when there is none
leadingMarker(str) ==
    IF hasMatch(str, CommentOpen, 0) THEN skipWS(str, 4) ELSE 0

\* the offset where the match of /\s*-->$/ starts in str, Len(str) when
\* there is none: the whitespace run that ends where the final "-->" starts
RECURSIVE wsRunStart(_, _)
wsRunStart(str, j) ==
    IF j > 0 /\ charAt(str, j - 1) \in WS THEN wsRunStart(str, j - 1) ELSE j

trailingMarker(str) ==
    IF hasMatch(str, CommentClose, Len(str) - 3)
    THEN wsRunStart(str, Len(str) - 3)
    ELSE Len(str)

\* a variant whose second pattern is /-->$/: the whitespace before it stays
removeComment_keepSpace(str) ==
    LET rest == substringFrom(str, leadingMarker(str))
    IN  [text |-> IF hasMatch(rest, CommentClose, Len(rest) - 3)
                  THEN substring(rest, 0, Len(rest) - 3) ELSE rest,
         shift |-> leadingMarker(str)]

\* removeComment(str): the text without its markers, and the length of the
\* leading marker removed, by which caret_pos is decreased
removeComment(str) ==
    LET rest == substringFrom(str, leadingMarker(str))
    IN  [text |-> substring(rest, 0, trailingMarker(rest)),
         shift |-> leadingMarker(str)]

\* str.replace(/<!--\s+|\s+-->/g, ''), from offset j on
RECURSIVE stripMarkersFrom(_, _)
stripMarkersFrom(str, j) ==
    IF j >= Len(str) THEN <<>>
    ELSE IF hasMatch(str, CommentOpen, j) /\ charAt(str, j + 4) \in WS
    THEN stripMarkersFrom(str, skipWS(str, j + 4))
    ELSE IF charAt(str, j) \in WS /\ hasMatch(str, CommentClose, skipWS(str, j))
    THEN stripMarkersFrom(str, skipWS(str, j) + 3)
    ELSE <<charAt(str, j)>> \o stripMarkersFrom(str, j + 1)

stripMarkers(str) == stripMarkersFrom(str, 0)

\* the range toggleHTMLComment works on: the selection, or with no
\* selection the tag (pair) the matcher finds at the caret
toggleRange(s, start, end, pos) ==
    LET pair == getTags(s, pos)
    IN  IF start = end /\ isTag(pair.opening_tag)
        THEN <<pair.opening_tag.start,
               IF isTag(pair.closing_tag) THEN pair.closing_tag.end
               ELSE pair.opening_tag.end>>
        ELSE <<start, end>>

\* the comment around rng, searched as the code does: the nearest "<!--"
\* left of rng.start and the first "-->" after it; -1 where not found
commentAround(s, rng_start) ==
    LET comment_start == searchCommentStart(s, rng_start)
        ce == IF comment_start = NOT_FOUND THEN NOT_FOUND
              ELSE indexOf(s, CommentClose, comment_start + 1)
    IN  <<comment_start, IF ce = NOT_FOUND THEN NOT_FOUND ELSE ce + 3>>

\* what toggleHTMLComment decides for the non-empty range rng:
\* [start, end, new_content, caret_pos]
togglePlan(s, rng, caret_pos) ==
    IF hasMatch(s, CommentOpen, rng[1])
    THEN LET r == removeComment(substring(s, rng[1], rng[2]))
         IN  [start |-> rng[1], end |-> rng[2], new_content |-> r.text,
              caret_pos |-> caret_pos - r.shift, mode |-> "remove"]
    ELSE LET c == commentAround(s, rng[1])
         IN  IF c[1] < rng[1] /\ c[2] > rng[2]
             THEN LET r == removeComment(substring(s, c[1], c[2]))
                  IN  [start |-> c[1], end |-> c[2], new_content |-> r.text,
                       caret_pos |-> caret_pos - r.shift, mode |-> "remove"]
             ELSE [start |-> rng[1], end |-> rng[2],
                   new_content |-> CommentOpen \o <<" ">>
                                   \o stripMarkers(substring(s, rng[1], rng[2]))
                                   \o <<" ">> \o CommentClose,
                   caret_pos |-> caret_pos + 5, mode |-> "add"]

toggleHTMLComment ==
    /\ steps < MaxGrow
    /\ \E rng \in {toggleRange(content, selStart, selEnd, caret)} :
          IF rng[1] # rng[2]
          THEN \E plan \in {togglePlan(content, rng, caret)} :
               \E e1 \in {edSetCaret(Editor, plan.start)} :
               \E value \in {unindent(e1.content, e1.caret, plan.new_content)} :
                  /\ SetEditor(edSetCaret(edReplace(e1, value, plan.start,
                                                    plan.end),
                                          plan.caret_pos))
                  /\ issued' = << <<"setCaretPos", plan.start>>,
                                  <<"replaceContent", value, plan.start,
                                    plan.end>>,
                                  <<"setCaretPos", plan.caret_pos>> >>
                  /\ obs' = [mode |-> plan.mode, start |-> plan.start,
                             end |-> plan.end, value |-> value,
                             caret_pos |-> plan.caret_pos,
                             prev |-> IF op = "createSelection" THEN obs.mode
                                      ELSE "none"]
                  /\ ret' = TRUE
                  /\ steps' = steps + 1
          ELSE /\ UNCHANGED <<content, selStart, selEnd, caret, steps>>
               /\ issued' = <<>>
               /\ obs' = Null
               /\ ret' = FALSE
    /\ op' = "toggleComment"
    /\ UNCHANGED <<last_match, text, orig>>

\* the host selects the span the last toggle put in place
\* (editor.createSelection)
SelectReplaced ==
    /\ op = "toggleComment"
    /\ ret = TRUE
    /\ SetEditor(edSelect(Editor, obs.start, obs.start + Len(obs.value)))
    /\ op' = "createSelection"
    /\ ret' = Null
    /\ issued' = <<>>
    /\ obs' = [mode |-> obs.mode]
    /\ UNCHANGED <<last_match, text, orig, steps>>

\* the pieces documents are built from for the comment toggle
ToggleTokens == {CommentOpen, CommentClose, <<" ">>, <<"x">>, <<"\n">>}

InitToggle ==
    /\ content \in { join(t, <<>>) : t \in Strs(ToggleTokens, MaxTokens) }
    /\ selStart \in 0..Len(content)
    /\ selEnd \in selStart..Len(content)
    /\ caret \in {selStart, selEnd}
    /\ last_match = NoMatch
    /\ text = <<>>
    /\ op = "init"
    /\ ret = Null
    /\ issued = <<>>
    /\ obs = Null
    /\ orig = [content |-> content, start |-> selStart, end |-> selEnd]
    /\ steps = 0

NextToggle == toggleHTMLComment \/ SelectReplaced

SpecToggle == InitToggle /\ [][NextToggle]_vars

----------------------------------------------------------------------------
(* Tag-pair navigation *)

\* the span of a cached pair, or of a tag without closing tag
pairSpan(lm) ==
    <<lm.opening_tag.start,
      IF isTag(lm.closing_tag) THEN lm.closing_tag.end ELSE lm.opening_tag.end>>

\* a variant that ends the range at the end of the closing tag
contentRange_end(lm) == <<lm.opening_tag.end, lm.closing_tag.end>>

\* [old_open_tag.end, old_close_tag.start]
contentRange(lm) == <<lm.opening_tag.end, lm.closing_tag.start>>

\* the inward branch of matchPair, for a cached pair with a closing tag:
\* [range, last_match]
inward(s, range_start, lm) ==
    Only({ IF old_open_tag.start = range_start
           THEN IF charAt(s, old_open_tag.end) = "<"
                   /\ find(s, old_open_tag.end + 1) = contentRange(lm)
                THEN HTMLPairMatcher(s, old_open_tag.end + 1, lm)
                ELSE [range |-> contentRange(lm), last_match |-> lm]
           ELSE Only({ HTMLPairMatcher(s, IF new_cursor # NOT_FOUND
                                          THEN new_cursor + 1
                                          ELSE old_open_tag.end, lm) :
                       new_cursor \in
                           {indexOf(substring(s, 0, old_close_tag.start),
                                    <<"<">>, old_open_tag.end)} }) :
           old_open_tag \in {lm.opening_tag},
           old_close_tag \in {lm.closing_tag} })

\* what matchPair computes: [ok, range, last_match]; ok is its return value
matchPairResult(s, direction, range_start, range_end, lm) ==
    IF direction = "in" /\ isTag(lm.opening_tag) /\ range_start # range_end
    THEN IF ~ isTag(lm.closing_tag)
         THEN [ok |-> FALSE, range |-> <<NOT_FOUND, NOT_FOUND>>,
               last_match |-> lm]
         ELSE Only({ [ok |-> r.range[1] # NOT_FOUND, range |-> r.range,
                      last_match |-> r.last_match] :
                     r \in {inward(s, range_start, lm)} })
    ELSE Only({ [ok |-> r.range[1] # NOT_FOUND, range |-> r.range,
                 last_match |-> r.last_match] :
                r \in {HTMLPairMatcher(s, range_end, lm)} })

\* matchPair(editor, direction).  obs records the call: the direction, the
\* selection and the cache it found, and as parent the pair P when the step
\* before was a successful matchPair 'in' made with P cached and selected
matchPair(direction) ==
    \E r \in {matchPairResult(content, direction, selStart, selEnd,
                              last_match)} :
        /\ op' = "matchPair"
        /\ ret' = r.ok
        /\ obs' = [dir |-> direction, start |-> selStart, end |-> selEnd,
                   lm |-> last_match,
                   parent |-> IF /\ op = "matchPair"
                                 /\ obs.dir = "in"
                                 /\ ret = TRUE
                                 /\ isTag(obs.lm.closing_tag)
                                 /\ <<obs.start, obs.end>> = pairSpan(obs.lm)
                              THEN obs.lm ELSE NoMatch]
        /\ last_match' = r.last_match
        /\ IF r.ok
           THEN /\ SetEditor(edSelect(Editor, r.range[1], r.range[2]))
                /\ issued' = << <<"createSelection", r.range[1], r.range[2]>> >>
           ELSE /\ UNCHANGED <<content, selStart, selEnd, caret>>
                /\ issued' = <<>>
        /\ UNCHANGED <<text, orig, steps>>

selectLine ==
    /\ SetEditor(edSelect(Editor, LineStart(content, caret),
                          LineEnd(content, caret)))
    /\ op' = "selectLine"
    /\ ret' = Null
    /\ issued' = << <<"createSelection", LineStart(content, caret),
                      LineEnd(content, caret)>> >>
    /\ obs' = Null
    /\ UNCHANGED <<last_match, text, orig, steps>>

goToMatchingPair ==
    \E caret_pos \in {IF charAt(content, caret) = "<" THEN caret + 1
                      ELSE caret} :
    \E m \in {HTMLPairMatcher(content, caret_pos, last_match)} :
    \E found \in {m.range[1] # NOT_FOUND} :
    \E open_tag \in {m.last_match.opening_tag} :
    \E close_tag \in {m.last_match.closing_tag} :
    \E target \in {IF ~ found \/ ~ isTag(close_tag) THEN NOT_FOUND
                   ELSE IF open_tag.start <= caret_pos
                           /\ open_tag.end >= caret_pos
                   THEN close_tag.start
                   ELSE IF close_tag.start <= caret_pos
                           /\ close_tag.end >= caret_pos
                   THEN open_tag.start
                   ELSE NOT_FOUND} :
        /\ op' = "goToMatchingPair"
        /\ ret' = Null
        /\ obs' = [found |-> found]
        /\ last_match' = m.last_match
        /\ caret' = caretAfter(content, caret, target)
        /\ issued' = IF target # NOT_FOUND
                     THEN << <<"setCaretPos", target>> >> ELSE <<>>
        /\ UNCHANGED <<content, selStart, selEnd, text, orig, steps>>

----------------------------------------------------------------------------
(* Abbreviation expansion *)

\* the characters modelled that an abbreviation is made of
AbbrChars == {"a", "b", "x"}

\* zen_coding.extractAbbreviation(str): the longest trailing run of
\* abbreviation characters of str
RECURSIVE abbrStart(_, _)
abbrStart(str, j) ==
    IF j > 0 /\ charAt(str, j - 1) \in AbbrChars THEN abbrStart(str, j - 1)
    ELSE j

extractAbbreviation(str) == substringFrom(str, abbrStart(str, Len(str)))

\* findAbbreviation(editor)
findAbbreviation(s, start, end, pos) ==
    IF start # end THEN substring(s, start, end)
    ELSE extractAbbreviation(substring(s, LineStart(s, pos), start))

\* what zen_coding.expandAbbreviation may return: nothing (falsy) or markup
Expansions == {<<>>, <<"<", "b", "/", ">">>}

expandAbbreviation ==
    \E caret_pos \in {selEnd} :
    \E abbr \in {findAbbreviation(content, selStart, selEnd, caret)} :
    \E expansion \in Expansions :
        /\ op' = "expandAbbreviation"
        /\ IF abbr # <<>> /\ expansion # <<>>
           THEN /\ steps < MaxGrow
                /\ SetEditor(edReplace(Editor, expansion,
                                       caret_pos - Len(abbr), caret_pos))
                /\ issued' = << <<"replaceContent", expansion,
                                  caret_pos - Len(abbr), caret_pos>> >>
                /\ ret' = TRUE
                /\ steps' = steps + 1
           ELSE /\ UNCHANGED <<content, selStart, selEnd, caret, steps>>
                /\ issued' = <<>>
                /\ ret' = FALSE
        /\ obs' = [abbr |-> abbr]
        /\ UNCHANGED <<last_match, text, orig>>

----------------------------------------------------------------------------
(* The editor with all its actions *)

TagTokens == { <<"<", "a", ">">>, <<"<", "/", "a", ">">>,
               <<"<", "b", ">">>, <<"<", "/", "b", ">">>,
               <<"<", "b", "/", ">">>, <<"x">>, <<"\n">> }

isOpenToken(t) == Len(t) = 3 /\ t[1] = "<"

isCloseToken(t) == Len(t) = 4 /\ t[2] = "/"

\* the tags of a token sequence are properly nested; stack holds the names
\* of the open elements
RECURSIVE wellFormed(_, _)
wellFormed(toks, stack) ==
    IF toks = <<>> THEN stack = <<>>
    ELSE IF isOpenToken(Head(toks))
    THEN wellFormed(Tail(toks), Append(stack, Head(toks)[2]))
    ELSE IF isCloseToken(Head(toks))
    THEN /\ stack # <<>>
         /\ stack[Len(stack)] = Head(toks)[3]
         /\ wellFormed(Tail(toks), SubSeq(stack, 1, Len(stack) - 1))
    ELSE wellFormed(Tail(toks), stack)

\* the documents of at most n of the tokens toks whose tags are properly
\* nested
Documents(toks, n) ==
    { join(t, <<>>) : t \in { u \in Strs(toks, n) : wellFormed(u, <<>>) } }

\* the editor on a document, an empty selection at the caret, nothing cached
Opened(docs) ==
    /\ content \in docs
    /\ caret \in 0..Len(content)
    /\ selStart = caret
    /\ selEnd = caret
    /\ last_match = NoMatch
    /\ text = <<>>
    /\ op = "init"
    /\ ret = Null
    /\ issued = <<>>
    /\ obs = Null
    /\ orig = [content |-> content, start |-> selStart, end |-> selEnd]
    /\ steps = 0

Init == Opened(Documents(TagTokens, MaxDocTokens))

Next ==
    \/ \E direction \in {"in", "out"} : matchPair(direction)
    \/ selectLine
    \/ goToMatchingPair
    \/ nextEditPoint
    \/ prevEditPoint
    \/ mergeLines
    \/ toggleHTMLComment
    \/ expandAbbreviation

Spec == Init /\ [][Next]_vars

\* the navigation actions alone, on larger documents of one line
NavTokens == TagTokens \ { <<"\n">> }

InitNav == Opened(Documents(NavTokens, MaxTagTokens))

NextNav ==
    \/ \E direction \in {"in", "out"} : matchPair(direction)
    \/ selectLine
    \/ goToMatchingPair

SpecNav == InitNav /\ [][NextNav]_vars

----------------------------------------------------------------------------
(* Claims about the edit-point scanner, checked under SpecEdit *)

EditOps == {"nextEditPoint", "prevEditPoint"}

InDocument(p, s) == p >= 0 /\ p <= Len(s)

\* C1: findNewEditPoint, in either direction and with shift 0 or -2, returns
\* NOT_FOUND or an offset inside [0, document.length]; and a nextEditPoint
\* that finds a point sets the caret strictly to the right of where it was.
C1_EditPointMonotone ==
    /\ \A inc \in {1, 0 - 1} : \A offset \in {0, 0 - 2} :
          LET p == findNewEditPoint(content, caret, inc, offset)
          IN  p = NOT_FOUND \/ InDocument(p, content)
    /\ op \in EditOps =>
          \A i \in DOMAIN obs.finds :
             obs.finds[i] = NOT_FOUND \/ InDocument(obs.finds[i], content)
    /\ (op = "nextEditPoint" /\ ret # NOT_FOUND) =>
          (caret = ret /\ caret > obs.from)

\* C1 witness: a forward call found a point and moved the caret to it
C1_Witness ==
    /\ op = "nextEditPoint"
    /\ ret # NOT_FOUND
    /\ caret = ret
    /\ obs.from > 0
    /\ caret > obs.from

\* the line that ends at the terminator at offset p: from just after the
\* previous terminator (or the document start) up to p
PrecedingLine(s, p) == substring(s, LineStart(s, p), p)

\* C8: a line terminator is returned as a landing point only if the whole
\* line before it is non-empty and consists only of whitespace.
C8_BlankLineLanding ==
    op \in EditOps =>
       \A i \in DOMAIN obs.finds :
          LET p == obs.finds[i]
          IN  (p # NOT_FOUND /\ charAt(content, p) \in NL) =>
                 /\ PrecedingLine(content, p) # <<>>
                 /\ AllSpace(PrecedingLine(content, p))

\* the three landing rules, at the position p of the classified character
IsLandingPos(s, p) ==
    \/ /\ charAt(s, p) \in {"\"", "'"}
       /\ charAt(s, p + 1) = charAt(s, p)
       /\ charAt(s, p - 1) = "="
    \/ /\ charAt(s, p) = ">"
       /\ charAt(s, p + 1) = "<"
    \/ /\ charAt(s, p) \in NL
       /\ PrecedingLine(s, p) # <<>>
       /\ AllSpace(PrecedingLine(s, p))

\* C9: a forward search from c returns NOT_FOUND only if no position p with
\* c < p < length satisfies a landing rule, and the first backward search
\* only if no position p with 0 <= p < c does; also for c = 0 and c = length.
C9_SearchComplete ==
    /\ (op = "nextEditPoint" /\ obs.finds[1] = NOT_FOUND) =>
          ~ \E p \in (obs.from + 1)..(Len(content) - 1) :
               IsLandingPos(content, p)
    /\ (op = "prevEditPoint" /\ obs.finds[1] = NOT_FOUND) =>
          ~ \E p \in 0..(obs.from - 1) : IsLandingPos(content, p)

----------------------------------------------------------------------------
(* Claims about unindent, checked under SpecUnindent *)

\* the precondition of C4: a non-empty padding that starts every line
EveryLinePadded(pad, txt) ==
    /\ pad # <<>>
    /\ \A i \in DOMAIN splitByLines(txt) : hasMatch(splitByLines(txt)[i], pad, 0)

\* C4: when every line of the text starts with the non-empty
\* padding P, unindent returns as many lines, none of which starts with P.
C4_NoLineStartsWithPad ==
    (op = "unindent" /\ EveryLinePadded(obs.pad, text)) =>
       /\ Len(splitByLines(ret)) = Len(splitByLines(text))
       /\ \A i \in DOMAIN splitByLines(ret) :
             ~ hasMatch(splitByLines(ret)[i], obs.pad, 0)

\* C4 for one level of padding: when every line of the text starts with the
\* non-empty padding P, unindent returns as many lines, each the input line
\* with exactly one leading P removed (P followed by the output line is the
\* input line).
C4_OnePadRemoved ==
    (op = "unindent" /\ EveryLinePadded(obs.pad, text)) =>
       /\ Len(splitByLines(ret)) = Len(splitByLines(text))
       /\ \A i \in DOMAIN splitByLines(ret) :
             obs.pad \o splitByLines(ret)[i] = splitByLines(text)[i]

\* unindent ran on a padded text of two lines
C4_Witness ==
    /\ op = "unindent"
    /\ EveryLinePadded(obs.pad, text)
    /\ Len(splitByLines(text)) = 2
    /\ ret # text

----------------------------------------------------------------------------
(* Claims about mergeLines, checked under SpecMerge *)

NoWhitespaceRun(s) == \A i \in 1..(Len(s) - 1) : ~ (s[i] \in WS /\ s[i + 1] \in WS)

\* C7: after mergeLines acts on a non-empty span, the replacement text holds
\* no run of two or more whitespace characters (every run was collapsed to
\* one space), and the new selection covers exactly the replacement text.
C7_RunsCollapsed ==
    (op = "mergeLines" /\ obs.acted) =>
       /\ NoWhitespaceRun(obs.text)
       /\ selStart = obs.start
       /\ selEnd = obs.start + Len(obs.text)
       /\ substring(content, selStart, selEnd) = obs.text

----------------------------------------------------------------------------
(* Claims about the comment toggle, checked under SpecToggle *)

\* the span selected at the start
OrigSpan == substring(orig.content, orig.start, orig.end)

\* the second of two toggles has run: the first wrapped the span selected
\* at the start, the host selected the resulting comment, this one acted
RoundTripDone ==
    /\ op = "toggleComment"
    /\ ret = TRUE
    /\ steps = 2
    /\ obs.prev = "add"
    /\ orig.start # orig.end

\* the original document, with the markers inside the span stripped
RoundTripText ==
    replaceContent(orig.content, stripMarkers(OrigSpan), orig.start, orig.end)

\* C2: wrapping a non-empty span that is not a comment and not
\* inside one, and toggling the resulting comment again, restores the
\* original text (apart from the markers stripped inside the span).
C2_RoundTrip == RoundTripDone => content = RoundTripText

\* whitespace-trimmed, single-line spans
TrimmedOneLine(str) ==
    /\ str # <<>>
    /\ str[1] \notin WS
    /\ str[Len(str)] \notin WS
    /\ \A i \in 1..Len(str) : str[i] \notin NL

\* C2 for trimmed single-line spans: the round trip restores the text when
\* the span neither starts nor ends with whitespace and holds no line break.
C2_RoundTripTrimmed ==
    (RoundTripDone /\ TrimmedOneLine(OrigSpan)) => content = RoundTripText

\* a round trip over a trimmed span that held a marker
C2_Witness ==
    /\ RoundTripDone
    /\ TrimmedOneLine(OrigSpan)
    /\ stripMarkers(OrigSpan) # OrigSpan
    /\ content = RoundTripText

\* C10: when toggleHTMLComment returns true, the offset it finally passes
\* to setCaretPos lies inside the document as it is after the replacement.
C10_CaretInDocument ==
    (op = "toggleComment" /\ ret = TRUE) =>
       (obs.caret_pos >= 0 /\ obs.caret_pos <= Len(content))


----------------------------------------------------------------------------
(* Claims about tag-pair navigation, checked under SpecNav *)

\* an opening or unary tag starts inside the content of pair p
HasInnerPair(s, p) ==
    \E j \in p.opening_tag.end..(p.closing_tag.start - 1) :
        isTag(start_tag(s, j))

\* matchPair 'out' was called right after a successful matchPair 'in' made
\* with pair P cached and selected, P holding an inner pair
OutAfterIn ==
    /\ op = "matchPair"
    /\ obs.dir = "out"
    /\ isTag(obs.parent.opening_tag)
    /\ HasInnerPair(content, obs.parent)

\* C3: for a pair P with an inner pair, selected and cached, matchPair 'in'
\* followed by matchPair 'out' succeeds and leaves P's full span selected.
C3_InOutInverse ==
    OutAfterIn => ret = TRUE /\ <<selStart, selEnd>> = pairSpan(obs.parent)

C3_Witness ==
    /\ OutAfterIn
    /\ ret = TRUE
    /\ <<selStart, selEnd>> = pairSpan(obs.parent)
    /\ <<obs.start, obs.end>> = contentRange(obs.parent)

\* the cached pair lm does not correspond to the selection [start, end): the
\* selection is neither its span nor inside its span
Stale(lm, start, end) ==
    ~ (pairSpan(lm)[1] <= start /\ end <= pairSpan(lm)[2])

\* C5: matchPair 'in' on a non-empty selection the cache does not correspond
\* to gives what a fresh match at the end of the selection gives: its range
\* selected, or failure and the selection kept when it finds none.
C5_StaleCacheFallback ==
    (/\ op = "matchPair"
     /\ obs.dir = "in"
     /\ obs.start # obs.end
     /\ Stale(obs.lm, obs.start, obs.end))
    => IF find(content, obs.end)[1] # NOT_FOUND
       THEN ret = TRUE /\ <<selStart, selEnd>> = find(content, obs.end)
       ELSE ret = FALSE /\ <<selStart, selEnd>> = <<obs.start, obs.end>>

----------------------------------------------------------------------------
(* Claims about all actions, checked under Spec *)

\* the last action found nothing to act on
Failed ==
    \/ op = "expandAbbreviation" /\ ret = FALSE
    \/ op = "matchPair" /\ ret = FALSE
    \/ op \in EditOps /\ ret = NOT_FOUND
    \/ op = "toggleComment" /\ ret = FALSE
    \/ op = "goToMatchingPair" /\ obs.found = FALSE
    \/ op = "mergeLines" /\ obs.acted = FALSE

\* C6: an action that finds nothing to act on leaves the document text, the
\* selection and the caret as they were and issues no editor command.
C6_FailureUntouched ==
    [][Failed' => /\ UNCHANGED <<content, selStart, selEnd, caret>>
                  /\ issued' = <<>>]_vars

\* matchPair 'in' has failed on a cached unary tag and issued nothing
C6_Witness ==
    /\ op = "matchPair"
    /\ ret = FALSE
    /\ obs.dir = "in"
    /\ obs.start # obs.end
    /\ isTag(obs.lm.opening_tag)
    /\ ~ isTag(obs.lm.closing_tag)
    /\ issued = <<>>

====
